---- MODULE Spec2Model ----
(***************************************************************************)
(* Authentication controller of the e-commerce server                      *)
(* (src/controllers/authController.js): login, register, logout,           *)
(* forgot/reset/update password and refresh-access-token handlers over     *)
(* the User collection.  Every handler is split at its awaits: one action  *)
(* per database access or email send, the local variables of the handler   *)
(* living in the request slot between two steps.  The first action of a    *)
(* handler runs from the arrival of the request through its first query.   *)
(***************************************************************************)
EXTENDS Integers, Sequences, FiniteSets, TLC

\* ------------------------------------------------------------ bounds
MaxUsers == 2
MaxTime == 1
\* Reset tokens crypto.randomBytes may produce; those the sequential
\* specification lets forgot-password draw.
MaxResets == 2
SeqResets == 1

\* ------------------------------------------------------------ constants
STATUS_OK == 200
STATUS_CREATED == 201
STATUS_BAD_REQUEST == 400
STATUS_UNAUTHORIZED == 401
STATUS_FORBIDDEN == 403
STATUS_NOT_FOUND == 404
STATUS_INTERNAL == 500

\* Lifetime of a refresh token and of a reset token, in clock ticks.
RefreshLifetime == 1
ResetWindow == 1

UserIds == 1..MaxUsers
Times == 0..MaxTime
\* The request slots: requests in flight at the same time.  The sequential
\* specification serves its requests one at a time, in slot 1.
SeqReqs == {1}
Reqs == {1, 2}

\* A missing body field, route parameter or cookie (falsy in the handlers).
Nil == ""
Usernames == {"alice", "bob"}
Passwords == {"pw1", "pw2"}
EmailOf(username) == IF username = "alice" THEN "a@x.com" ELSE "b@x.com"
Emails == {EmailOf(n) : n \in Usernames}

\* ------------------------------------------------------------ values
\* bcrypt hash written by the pre-save hook, and its comparison.
HashPassword(p) == <<"bcrypt", p>>
ComparePassword(stored, p) == stored = HashPassword(p)

\* crypto.createHash('sha256').update(token).digest('hex')
Sha256(t) == <<"sha256", t>>

\* An absent (undefined) document field.
Absent == <<>>

\* A signed JWT: subject, issue time and the secret that signed it.
NoToken == [id |-> 0, iat |-> 0, sig |-> "absent"]
SignRefreshToken(uid, t) == [id |-> uid, iat |-> t, sig |-> "refresh"]
SignAccessToken(uid, t) == [id |-> uid, iat |-> t, sig |-> "access"]
\* The cookies a client may present: every token the server may have signed,
\* and tokens signed with another secret.
RefreshTokens ==
    [id : UserIds, iat : Times, sig : {"refresh"}] \cup [id : UserIds, iat : {0}, sig : {"forged"}]

NoUser == [exists |-> FALSE, username |-> Nil, email |-> Nil, password |-> Absent,
           refreshToken |-> NoToken, resetPasswordToken |-> Absent,
           resetPasswordExpiration |-> Absent]

\* ------------------------------------------------------------ responses
NoCookie == [op |-> "none", value |-> NoToken]
SetCookie(tok) == [op |-> "set", value |-> tok]
ClearCookie == [op |-> "clear", value |-> NoToken]

NoResponse == [status |-> 0, message |-> Nil, accessToken |-> NoToken, cookie |-> NoCookie]
\* next(new ErrorHandler(message, status)) through the error responder.
ErrorHandler(message, status) ==
    [status |-> status, message |-> message, accessToken |-> NoToken, cookie |-> NoCookie]
\* An exception thrown inside a handler: asyncHandler passes it to next.
Thrown(name) == ErrorHandler(name, STATUS_INTERNAL)
Json(status, message, accessToken, cookie) ==
    [status |-> status, message |-> message, accessToken |-> accessToken, cookie |-> cookie]

\* ------------------------------------------------------------ state
\* users: the User collection; now: the clock; nextReset: the next value of
\* crypto.randomBytes; pc, req, loc, res: position, request, handler locals
\* and response of every request slot; fate: what became of every reset
\* token generated so far (history, read by no handler).
VARIABLES users, now, nextReset, pc, req, loc, res, fate

vars == <<users, now, nextReset, pc, req, loc, res, fate>>

NoRequest == [kind |-> "none", username |-> Nil, name |-> Nil, email |-> Nil,
              password |-> Nil, newPassword |-> Nil, token |-> 0,
              cookie |-> NoToken, userId |-> 0]
\* Handler locals: the id of foundUser, the in-memory document, the reset token
\* generated, the status handed to sendAuthToken; replaced is the password hash
\* a reset overwrote (history, read by no handler).
NoLocals == [found |-> 0, doc |-> NoUser, resetToken |-> 0, status |-> 0,
             replaced |-> Absent]
ResetTokens == 1..MaxResets

Idle(r) == pc[r] = "idle"

Init ==
    /\ users = [u \in UserIds |-> NoUser]
    /\ now = 0
    /\ nextReset = 1
    /\ pc = [r \in Reqs |-> "idle"]
    /\ req = [r \in Reqs |-> NoRequest]
    /\ loc = [r \in Reqs |-> NoLocals]
    /\ res = [r \in Reqs |-> NoResponse]
    /\ fate = [t \in ResetTokens |-> "new"]

\* ------------------------------------------------------------ database
\* User.findOne(query): the id of the first matching document, 0 when none.
FindOne(matching) ==
    IF matching = {} THEN 0
    ELSE CHOOSE u \in matching : \A v \in matching : u <= v

\* The documents of db whose field has the given value.
Where(db, field, value) == {u \in UserIds : db[u].exists /\ db[u][field] = value}

\* The pre-save hook: a modified plaintext password is stored hashed.
PreSave(doc) ==
    IF Len(doc.password) = 2 /\ doc.password[1] = "plain"
    THEN [doc EXCEPT !.password = HashPassword(doc.password[2])]
    ELSE doc

\* document.save(): writes the modified paths of the in-memory document.
Save(db, id, doc, paths) ==
    [db EXCEPT ![id] = [f \in DOMAIN NoUser |->
        IF f \in paths THEN PreSave(doc)[f] ELSE db[id][f]]]

\* Ends the request in slot r with response out.
\* Of the handler's locals only the history is kept once it has returned: the
\* user it found, the reset token it generated, the password it replaced.
Respond(r, out, foundUser) ==
    /\ pc' = [pc EXCEPT ![r] = "done"]
    /\ res' = [res EXCEPT ![r] = out]
    /\ loc' = [loc EXCEPT ![r] = [NoLocals EXCEPT !.found = foundUser,
                                                  !.resetToken = loc[r].resetToken,
                                                  !.replaced = loc[r].replaced]]

\* Request q arrives in the free slot r.
Accept(r, q) ==
    /\ Idle(r)
    /\ req' = [req EXCEPT ![r] = q]

\* A request that fails validation ends before any query.
Reject(r, message, status) ==
    /\ pc' = [pc EXCEPT ![r] = "done"]
    /\ res' = [res EXCEPT ![r] = ErrorHandler(message, status)]
    /\ loc' = [loc EXCEPT ![r] = NoLocals]

\* The response has been delivered: the slot is free for the next request.
Finish(r) ==
    /\ pc[r] = "done"
    /\ pc' = [pc EXCEPT ![r] = "idle"]
    /\ req' = [req EXCEPT ![r] = NoRequest]
    /\ loc' = [loc EXCEPT ![r] = NoLocals]
    /\ res' = [res EXCEPT ![r] = NoResponse]
    /\ UNCHANGED <<users, now, nextReset, fate>>

\* The clock advances (a finished response is delivered at once).
Tick ==
    /\ now < MaxTime
    /\ \A r \in Reqs : pc[r] # "done"
    /\ now' = now + 1
    /\ UNCHANGED <<users, nextReset, pc, req, loc, res, fate>>

\* ------------------------------------------------------------ token issuer
\* sendAuthToken(user, status, res): signs both tokens, stores the refresh
\* token on the user record, sets the cookie and answers with the access token.
SendAuthToken(r) ==
    /\ pc[r] = "send_auth"
    /\ LET id == loc[r].found
           refreshToken == SignRefreshToken(id, now)
           doc == [loc[r].doc EXCEPT !.refreshToken = refreshToken]
       IN /\ users' = Save(users, id, doc, {"refreshToken"})
          /\ Respond(r, Json(loc[r].status, Nil, SignAccessToken(id, now),
                             SetCookie(refreshToken)), id)
    /\ UNCHANGED <<now, nextReset, req, fate>>

\* ------------------------------------------------------------ login
\* Faulty variant: the negation of line 36 dropped.
LoginVerdictInverted(db, username, password) ==
    LET foundUser == FindOne(Where(db, "username", username))
    IN IF foundUser = 0 THEN "unknown"
       ELSE IF ComparePassword(db[foundUser].password, password) THEN "mismatch"
       ELSE "ok"

\* Lines 30-38 on database db: which branch a login takes.
LoginVerdict(db, username, password) ==
    LET foundUser == FindOne(Where(db, "username", username))
    IN IF foundUser = 0 THEN "unknown"
       ELSE IF ~ComparePassword(db[foundUser].password, password) THEN "mismatch"
       ELSE "ok"

\* Faulty variant: a password mismatch told apart from an unknown user.
WrongPasswordDistinct == ErrorHandler("Incorrect password", STATUS_FORBIDDEN)

\* The error of line 32 (no such user) and of line 37 (password mismatch).
UnknownUserError == ErrorHandler("Incorrect credentials", STATUS_UNAUTHORIZED)
WrongPasswordError == ErrorHandler("Incorrect credentials", STATUS_UNAUTHORIZED)

Login(r) ==
    /\ \E username \in Usernames \cup {Nil}, password \in Passwords \cup {Nil} :
        /\ username = Nil => password = "pw1"
        /\ password = Nil => username = "alice"
        /\ Accept(r, [NoRequest EXCEPT !.kind = "login", !.username = username,
                                       !.password = password])
        /\ LET verdict == LoginVerdict(users, username, password)
               foundUser == FindOne(Where(users, "username", username))
           IN CASE password = Nil \/ username = Nil ->
                     Reject(r, "All fields are required", STATUS_BAD_REQUEST)
                [] verdict = "unknown" ->
                     Respond(r, UnknownUserError, 0)
                [] verdict = "mismatch" ->
                     Respond(r, WrongPasswordError, foundUser)
                [] OTHER ->
                     /\ loc' = [loc EXCEPT ![r] = [NoLocals EXCEPT !.found = foundUser,
                                    !.doc = users[foundUser], !.status = STATUS_OK]]
                     /\ pc' = [pc EXCEPT ![r] = "send_auth"]
                     /\ UNCHANGED res
    /\ UNCHANGED <<users, now, nextReset, fate>>

\* ------------------------------------------------------------ register
FreeIds == {u \in UserIds : ~users[u].exists}

\* User.create: a unique index on username and on email.
Register(r) ==
    /\ FreeIds # {}
    /\ \E username \in Usernames, password \in Passwords,
          missing \in {"none", "username", "name", "email", "password"} :
        /\ missing # "none" => (username = "alice" /\ password = "pw1")
        /\ Accept(r, [NoRequest EXCEPT !.kind = "register",
                         !.username = IF missing = "username" THEN Nil ELSE username,
                         !.name = IF missing = "name" THEN Nil ELSE "name",
                         !.email = IF missing = "email" THEN Nil ELSE EmailOf(username),
                         !.password = IF missing = "password" THEN Nil ELSE password])
        /\ LET id == CHOOSE u \in FreeIds : \A v \in FreeIds : u <= v
               taken == \E u \in UserIds : /\ users[u].exists
                                           /\ \/ users[u].username = username
                                              \/ users[u].email = EmailOf(username)
               createdUser == [NoUser EXCEPT !.exists = TRUE, !.username = username,
                                  !.email = EmailOf(username),
                                  !.password = HashPassword(password)]
           IN CASE missing # "none" ->
                     /\ Reject(r, "All fields are required", STATUS_BAD_REQUEST)
                     /\ UNCHANGED users
                [] taken ->
                     /\ Respond(r, ErrorHandler("Duplicate field value entered",
                                                STATUS_BAD_REQUEST), 0)
                     /\ UNCHANGED users
                [] OTHER ->
                     /\ users' = [users EXCEPT ![id] = createdUser]
                     /\ loc' = [loc EXCEPT ![r] = [NoLocals EXCEPT !.found = id,
                                    !.doc = createdUser, !.status = STATUS_CREATED]]
                     /\ pc' = [pc EXCEPT ![r] = "send_auth"]
                     /\ UNCHANGED res
    /\ UNCHANGED <<now, nextReset, fate>>

\* ------------------------------------------------------------ logout
LoggedOut == Json(STATUS_OK, "You have been logged out", NoToken, ClearCookie)

\* Faulty variant: the stored token is not cleared.
LogoutKeepToken(doc) == doc

\* foundUser.refreshToken = undefined
LogoutMutation(doc) == [doc EXCEPT !.refreshToken = NoToken]

\* Faulty variant: the answer moved inside the `if (foundUser)` block.
LogoutOnlyWhenFound(foundUser) ==
    IF foundUser = 0 THEN ErrorHandler("You are already logged out", STATUS_BAD_REQUEST)
    ELSE LoggedOut

\* res.clearCookie('jwt') and the 200 answer, reached on both branches.
LogoutResponse(foundUser) == LoggedOut

Logout(r) ==
    /\ \E refreshToken \in RefreshTokens \cup {NoToken} :
        /\ Accept(r, [NoRequest EXCEPT !.kind = "logout", !.cookie = refreshToken])
        /\ LET foundUser == FindOne(Where(users, "refreshToken", refreshToken))
           IN CASE refreshToken = NoToken ->
                     Reject(r, "You are already logged out", STATUS_BAD_REQUEST)
                [] foundUser = 0 ->
                     Respond(r, LogoutResponse(foundUser), 0)
                [] OTHER ->
                     /\ loc' = [loc EXCEPT ![r] = [NoLocals EXCEPT !.found = foundUser,
                                    !.doc = LogoutMutation(users[foundUser])]]
                     /\ pc' = [pc EXCEPT ![r] = "logout_save"]
                     /\ UNCHANGED res
    /\ UNCHANGED <<users, now, nextReset, fate>>

\* Faulty variant: the field is cleared only while it still holds the token
\* the request presented.
LogoutWriteIfHeld(db, id, doc, refreshToken) ==
    IF db[id].refreshToken = refreshToken
    THEN Save(db, id, doc, {"refreshToken"})
    ELSE db

\* await foundUser.save({validateBeforeSave: false}): the modified path is
\* written whatever the record holds by then.
LogoutWrite(db, id, doc, refreshToken) == Save(db, id, doc, {"refreshToken"})

LogoutSave(r) ==
    /\ pc[r] = "logout_save"
    /\ users' = LogoutWrite(users, loc[r].found, loc[r].doc, req[r].cookie)
    /\ Respond(r, LogoutResponse(loc[r].found), loc[r].found)
    /\ UNCHANGED <<now, nextReset, req, fate>>

\* ------------------------------------------------------------ forgot password
\* foundUser.signResetPasswordToken(): stores the digest of the token and
\* its expiration on the in-memory document.
SignResetPasswordToken(doc, token, t) ==
    [doc EXCEPT !.resetPasswordToken = Sha256(token),
                !.resetPasswordExpiration = <<t + ResetWindow>>]

Forgot(r) ==
    /\ nextReset <= MaxResets
    /\ \E email \in Emails \cup {Nil} :
        /\ Accept(r, [NoRequest EXCEPT !.kind = "forgot", !.email = email])
        /\ LET foundUser == FindOne(Where(users, "email", email))
           IN CASE email = Nil ->
                     /\ Reject(r, "Email is required", STATUS_BAD_REQUEST)
                     /\ UNCHANGED <<nextReset, fate>>
                [] foundUser = 0 ->
                     /\ Respond(r, ErrorHandler("User with email was not found",
                                                STATUS_NOT_FOUND), 0)
                     /\ UNCHANGED <<nextReset, fate>>
                [] OTHER ->
                     /\ loc' = [loc EXCEPT ![r] = [NoLocals EXCEPT !.found = foundUser,
                                    !.doc = SignResetPasswordToken(users[foundUser],
                                                                   nextReset, now),
                                    !.resetToken = nextReset]]
                     /\ nextReset' = nextReset + 1
                     /\ fate' = [fate EXCEPT ![nextReset] = "issued"]
                     /\ pc' = [pc EXCEPT ![r] = "forgot_save"]
                     /\ UNCHANGED res
    /\ UNCHANGED <<users, now>>

ResetPaths == {"resetPasswordToken", "resetPasswordExpiration"}

\* Faulty variant: a digest already stored is kept, only its expiration is
\* renewed.
StoreUnlessPresent(db, id, doc) ==
    IF db[id].resetPasswordToken = Absent
    THEN Save(db, id, doc, ResetPaths)
    ELSE Save(db, id, doc, {"resetPasswordExpiration"})

\* Line 109: the digest and the expiration replace what the record holds.
StoreResetToken(db, id, doc) == Save(db, id, doc, ResetPaths)

ForgotSave(r) ==
    /\ pc[r] = "forgot_save"
    /\ users' = StoreResetToken(users, loc[r].found, loc[r].doc)
    /\ pc' = [pc EXCEPT ![r] = "forgot_email"]
    /\ UNCHANGED <<now, nextReset, req, loc, res, fate>>

\* Faulty variant: line 126 missing.
RollbackExpirationOnly(doc) == [doc EXCEPT !.resetPasswordExpiration = Absent]

\* The catch block: both reset fields set to undefined.
RollbackMutation(doc) ==
    [doc EXCEPT !.resetPasswordToken = Absent, !.resetPasswordExpiration = Absent]

\* sendEmail resolves.
ForgotEmailSent(r) ==
    /\ pc[r] = "forgot_email"
    /\ Respond(r, Json(STATUS_OK, "Recovery link sent", NoToken, NoCookie), loc[r].found)
    /\ fate' = [fate EXCEPT ![loc[r].resetToken] = "mailed"]
    /\ UNCHANGED <<users, now, nextReset, req>>

\* sendEmail rejects.
ForgotEmailFailed(r) ==
    /\ pc[r] = "forgot_email"
    /\ loc' = [loc EXCEPT ![r].doc = RollbackMutation(loc[r].doc)]
    /\ pc' = [pc EXCEPT ![r] = "forgot_rollback"]
    /\ UNCHANGED <<users, now, nextReset, req, res, fate>>

ForgotRollback(r) ==
    /\ pc[r] = "forgot_rollback"
    /\ users' = Save(users, loc[r].found, loc[r].doc, ResetPaths)
    /\ Respond(r, ErrorHandler("Cannot send email", STATUS_INTERNAL), loc[r].found)
    /\ fate' = [fate EXCEPT ![loc[r].resetToken] = "unsent"]
    /\ UNCHANGED <<now, nextReset, req>>

\* ------------------------------------------------------------ reset password
\* Faulty variant: the expiration is not compared with the clock.
NotExpiredIgnored(expiration, t) == expiration # Absent

\* resetPasswordExpiration: {$gt: Date.now()}
NotExpired(expiration, t) == expiration # Absent /\ expiration[1] > t

\* The query of lines 151-159: the user holding the digest of the token,
\* unexpired; 0 when none.
ResetLookup(db, token, t) ==
    FindOne({u \in Where(db, "resetPasswordToken", Sha256(token)) :
                NotExpired(db[u].resetPasswordExpiration, t)})

ResetExpired == ErrorHandler("Reset token has been expired", STATUS_FORBIDDEN)

\* Faulty variant: the failing branch clears the reset fields of the user
\* who holds the digest of the token.
ExpiredResetClears(db, token) ==
    [u \in UserIds |->
        IF db[u].exists /\ db[u].resetPasswordToken = Sha256(token)
        THEN [db[u] EXCEPT !.resetPasswordToken = Absent,
                           !.resetPasswordExpiration = Absent]
        ELSE db[u]]

\* Lines 160-162: the failing branch returns without a write.
ExpiredResetEffect(db, token) == db

\* Faulty variants: lines 165-166 missing; line 164 missing.
ResetKeepToken(doc, password) == [doc EXCEPT !.password = <<"plain", password>>]
ResetKeepPassword(doc, password) ==
    [doc EXCEPT !.resetPasswordToken = Absent, !.resetPasswordExpiration = Absent]

\* Lines 164-166: the new password, both reset fields undefined.
ResetMutation(doc, password) ==
    [doc EXCEPT !.password = <<"plain", password>>,
                !.resetPasswordToken = Absent,
                !.resetPasswordExpiration = Absent]

Reset(r) ==
    /\ \E token \in ResetTokens \cup {0}, password \in Passwords \cup {Nil} :
        /\ token = 0 => password = "pw1"
        /\ password = Nil => token = 1
        /\ Accept(r, [NoRequest EXCEPT !.kind = "reset", !.token = token,
                                       !.password = password])
        /\ LET foundUser == ResetLookup(users, token, now)
           IN CASE token = 0 ->
                     /\ Reject(r, "Reset token is required", STATUS_BAD_REQUEST)
                     /\ UNCHANGED users
                [] password = Nil ->
                     /\ Reject(r, "Password is required", STATUS_BAD_REQUEST)
                     /\ UNCHANGED users
                [] foundUser = 0 ->
                     /\ Respond(r, ResetExpired, 0)
                     /\ users' = ExpiredResetEffect(users, token)
                [] OTHER ->
                     /\ loc' = [loc EXCEPT ![r] = [NoLocals EXCEPT !.found = foundUser,
                                    !.doc = ResetMutation(users[foundUser], password),
                                    !.status = STATUS_OK]]
                     /\ pc' = [pc EXCEPT ![r] = "reset_save"]
                     /\ UNCHANGED <<users, res>>
    /\ UNCHANGED <<now, nextReset, fate>>

ResetSave(r) ==
    /\ pc[r] = "reset_save"
    /\ users' = Save(users, loc[r].found, loc[r].doc, ResetPaths \cup {"password"})
    /\ loc' = [loc EXCEPT ![r].doc = PreSave(loc[r].doc),
                          ![r].replaced = users[loc[r].found].password]
    /\ fate' = [fate EXCEPT ![req[r].token] = "used"]
    /\ pc' = [pc EXCEPT ![r] = "send_auth"]
    /\ UNCHANGED <<now, nextReset, req, res>>

\* ------------------------------------------------------------ update password
\* Faulty variant: the comparison of line 189-190 skipped.
UpdateVerdictNoCompare(db, userId, password, newPassword) ==
    IF password = Nil \/ newPassword = Nil THEN "missing"
    ELSE IF password = newPassword THEN "same"
    ELSE "ok"

\* Lines 180-192 on database db: which branch an update takes.
UpdateVerdict(db, userId, password, newPassword) ==
    IF password = Nil \/ newPassword = Nil THEN "missing"
    ELSE IF password = newPassword THEN "same"
    ELSE IF ~ComparePassword(db[userId].password, password) THEN "mismatch"
    ELSE "ok"

Update(r) ==
    /\ \E userId \in UserIds, password \in Passwords \cup {Nil},
          newPassword \in Passwords \cup {Nil} :
        /\ users[userId].exists
        /\ password = Nil => newPassword = "pw1"
        /\ newPassword = Nil => password = "pw1"
        /\ password = newPassword => password = "pw1"
        /\ Accept(r, [NoRequest EXCEPT !.kind = "update", !.userId = userId,
                         !.password = password, !.newPassword = newPassword])
        /\ LET verdict == UpdateVerdict(users, userId, password, newPassword)
           IN CASE verdict = "missing" ->
                  Reject(r, "All fields are required", STATUS_BAD_REQUEST)
             [] verdict = "same" ->
                  Reject(r, "Cannot use same password", STATUS_BAD_REQUEST)
             [] verdict = "mismatch" ->
                  Respond(r, ErrorHandler("Incorrect password", STATUS_FORBIDDEN), userId)
             [] OTHER ->
                  /\ loc' = [loc EXCEPT ![r] = [NoLocals EXCEPT !.found = userId,
                                 !.doc = [users[userId] EXCEPT
                                             !.password = <<"plain", newPassword>>]]]
                  /\ pc' = [pc EXCEPT ![r] = "update_save"]
                  /\ UNCHANGED res
    /\ UNCHANGED <<users, now, nextReset, fate>>

UpdateSave(r) ==
    /\ pc[r] = "update_save"
    /\ users' = Save(users, loc[r].found, loc[r].doc, {"password"})
    /\ Respond(r, Json(STATUS_OK, "Password has been updated", NoToken, NoCookie),
               loc[r].found)
    /\ UNCHANGED <<now, nextReset, req, fate>>

\* ------------------------------------------------------------ refresh
\* jwt.verify(token, JWT_REFRESH_TOKEN_SECRET): the (err, decoded) pair handed
\* to the callback; decoded is undefined (id 0) whenever err is set.
JwtVerify(token, t) ==
    IF token.sig # "refresh"
    THEN [err |-> "JsonWebTokenError", decoded |-> 0]
    ELSE IF t >= token.iat + RefreshLifetime
    THEN [err |-> "TokenExpiredError", decoded |-> 0]
    ELSE [err |-> "null", decoded |-> token.id]

AccessExpired == ErrorHandler("Access expired", STATUS_FORBIDDEN)

\* Faulty variant: the subject is not compared with the user found.
VerifyIgnoreSubject(userId, v, t) ==
    IF v.decoded = 0 THEN Thrown("TypeError")
    ELSE IF v.err # "null" THEN AccessExpired
    ELSE Json(STATUS_OK, Nil, SignAccessToken(userId, t), NoCookie)

\* Faulty variant: a successful refresh rotates the refresh cookie.
VerifyRotatesCookie(userId, v, t) ==
    IF v.decoded = 0 THEN Thrown("TypeError")
    ELSE IF v.err # "null" \/ userId # v.decoded THEN AccessExpired
    ELSE Json(STATUS_OK, Nil, SignAccessToken(userId, t),
              SetCookie(SignRefreshToken(userId, t)))

\* The callback of lines 219-229: decoded.id is read (line 221) before err is
\* tested (line 223), so a failed verification throws instead of answering.
VerifyCallback(userId, v, t) ==
    IF v.decoded = 0 THEN Thrown("TypeError")
    ELSE IF v.err # "null" \/ userId # v.decoded THEN AccessExpired
    ELSE Json(STATUS_OK, Nil, SignAccessToken(userId, t), NoCookie)

Refresh(r) ==
    /\ \E refreshToken \in RefreshTokens \cup {NoToken} :
        /\ Accept(r, [NoRequest EXCEPT !.kind = "refresh", !.cookie = refreshToken])
        /\ LET foundUser == FindOne(Where(users, "refreshToken", refreshToken))
           IN CASE refreshToken = NoToken ->
                     Reject(r, "Unauthorized", STATUS_UNAUTHORIZED)
                [] foundUser = 0 ->
                     Respond(r, AccessExpired, 0)
                [] OTHER ->
                     Respond(r, VerifyCallback(foundUser, JwtVerify(refreshToken, now), now),
                             foundUser)
    /\ UNCHANGED <<users, now, nextReset, fate>>

\* ------------------------------------------------------------ I/O failures
\* The handler positions that wait for a database write.
Saving == {"logout_save", "forgot_save", "forgot_rollback", "reset_save", "update_save"}

\* Whether the handler awaits the token issuer: line 40 does, lines 61 and
\* 169 do not.
Awaited(kind) == kind = "login"

\* The first database call of a handler (findOne, findById, create) rejects:
\* asyncHandler hands the rejection to next.
QueryFailed(r) ==
    /\ \E kind \in {"login", "register", "logout", "forgot", "reset", "update", "refresh"} :
        Accept(r, [NoRequest EXCEPT
            !.kind = kind,
            !.username = IF kind \in {"login", "register"} THEN "alice" ELSE Nil,
            !.name = IF kind = "register" THEN "name" ELSE Nil,
            !.email = IF kind \in {"register", "forgot"} THEN EmailOf("alice") ELSE Nil,
            !.password = IF kind \in {"login", "register", "reset", "update"}
                         THEN "pw1" ELSE Nil,
            !.newPassword = IF kind = "update" THEN "pw2" ELSE Nil,
            !.token = IF kind = "reset" THEN 1 ELSE 0,
            !.cookie = IF kind \in {"logout", "refresh"}
                       THEN SignRefreshToken(1, 0) ELSE NoToken,
            !.userId = IF kind = "update" THEN 1 ELSE 0])
    /\ Respond(r, Thrown("MongoError"), 0)
    /\ UNCHANGED <<users, now, nextReset, fate>>

\* An awaited save rejects: nothing is written, asyncHandler hands the
\* rejection to next (the save of the catch block included).
SaveFailed(r) ==
    /\ pc[r] \in Saving
    /\ Respond(r, Thrown("MongoError"), loc[r].found)
    /\ UNCHANGED <<users, now, nextReset, req, fate>>

\* The token issuer rejects.  Awaited (login), the rejection reaches next;
\* not awaited (register, reset), the handler has already returned and the
\* rejection reaches nobody: the request gets no response.
SendAuthTokenFailed(r) ==
    /\ pc[r] = "send_auth"
    /\ IF Awaited(req[r].kind)
       THEN Respond(r, Thrown("MongoError"), loc[r].found)
       ELSE /\ pc' = [pc EXCEPT ![r] = "unanswered"]
            /\ loc' = [loc EXCEPT ![r] = [NoLocals EXCEPT !.found = loc[r].found]]
            /\ UNCHANGED res
    /\ UNCHANGED <<users, now, nextReset, req, fate>>

\* ------------------------------------------------------------ specification
Next ==
    \/ Tick
    \/ \E r \in SeqReqs :
        \/ Login(r)
        \/ Register(r)
        \/ SendAuthToken(r)
        \/ Logout(r) \/ LogoutSave(r)
        \/ (nextReset <= SeqResets /\ Forgot(r)) \/ ForgotSave(r)
        \/ ForgotEmailSent(r) \/ ForgotEmailFailed(r) \/ ForgotRollback(r)
        \/ Reset(r) \/ ResetSave(r)
        \/ Update(r) \/ UpdateSave(r)
        \/ Refresh(r)
        \/ Finish(r)

Spec == Init /\ [][Next]_vars

\* The sequential specification with failing I/O steps.
NextFaults ==
    \/ Next
    \/ \E r \in SeqReqs :
        \/ QueryFailed(r)
        \/ SaveFailed(r)
        \/ SendAuthTokenFailed(r)

SpecFaults == Init /\ [][NextFaults]_vars

\* The refresh handler on every content of the refreshToken fields and every
\* clock value: the inputs of the verification of lines 214-229.
InitVerify ==
    /\ users \in [UserIds -> {NoUser} \cup
                              {[NoUser EXCEPT !.exists = TRUE, !.username = n,
                                  !.email = EmailOf(n), !.password = HashPassword("pw1"),
                                  !.refreshToken = k] :
                                n \in Usernames, k \in RefreshTokens \cup {NoToken}}]
    /\ \A u, v \in UserIds :
          /\ (u < v /\ users[v].exists) => users[u].exists
          /\ (u # v /\ users[u].exists /\ users[v].exists)
             => users[u].username # users[v].username
    /\ now \in Times
    /\ nextReset = 1
    /\ pc = [r \in Reqs |-> "idle"]
    /\ req = [r \in Reqs |-> NoRequest]
    /\ loc = [r \in Reqs |-> NoLocals]
    /\ res = [r \in Reqs |-> NoResponse]
    /\ fate = [t \in ResetTokens |-> "new"]

NextVerify == \E r \in SeqReqs : Refresh(r) \/ Finish(r)

SpecVerify == InitVerify /\ [][NextVerify]_vars

\* The state once the registration of alice with password pw1 at time 0 has
\* been answered: Register, SendAuthToken and Finish from Init.
Registered ==
    /\ users = [u \in UserIds |->
                  IF u = 1
                  THEN [NoUser EXCEPT !.exists = TRUE, !.username = "alice",
                                      !.email = EmailOf("alice"),
                                      !.password = HashPassword("pw1"),
                                      !.refreshToken = SignRefreshToken(1, 0)]
                  ELSE NoUser]
    /\ now = 0
    /\ nextReset = 1
    /\ pc = [r \in Reqs |-> "idle"]
    /\ req = [r \in Reqs |-> NoRequest]
    /\ loc = [r \in Reqs |-> NoLocals]
    /\ res = [r \in Reqs |-> NoResponse]
    /\ fate = [t \in ResetTokens |-> "new"]

\* Session requests (login, logout, refresh) of a registered user in flight
\* at the same time: every interleaving of their steps.
NextSession ==
    \/ Tick
    \/ \E r \in Reqs :
        \/ Login(r)
        \/ SendAuthToken(r)
        \/ Logout(r) \/ LogoutSave(r)
        \/ Refresh(r)
        \/ Finish(r)

SpecSession == Registered /\ [][NextSession]_vars

\* Logout and refresh requests of a registered user in flight at the same
\* time, and no other request: every interleaving of their steps.
NextRace ==
    \/ Tick
    \/ \E r \in Reqs :
        \/ Logout(r) \/ LogoutSave(r)
        \/ Refresh(r)
        \/ Finish(r)

SpecRace == Registered /\ [][NextRace]_vars

\* Password-recovery requests (forgot, reset) of a registered user in flight
\* at the same time: every interleaving of their steps.
NextRecovery ==
    \/ Tick
    \/ \E r \in Reqs :
        \/ SendAuthToken(r)
        \/ Forgot(r) \/ ForgotSave(r)
        \/ ForgotEmailSent(r) \/ ForgotEmailFailed(r) \/ ForgotRollback(r)
        \/ Reset(r) \/ ResetSave(r)
        \/ Finish(r)

SpecRecovery == Registered /\ [][NextRecovery]_vars

\* ------------------------------------------------------------ properties
Done(r, kind) == pc[r] = "done" /\ req[r].kind = kind

\* Some user record stores refresh token k.
Stored(db, k) == \E u \in UserIds : db[u].exists /\ db[u].refreshToken = k

Unauthorized401 ==
    [status |-> 401, message |-> "Incorrect credentials",
     accessToken |-> NoToken, cookie |-> NoCookie]
Forbidden403(message) ==
    [status |-> 403, message |-> message, accessToken |-> NoToken, cookie |-> NoCookie]

\* The stored credentials of username are exactly password.
ValidCredentials(username, password) ==
    \E u \in UserIds : /\ users[u].exists
                        /\ users[u].username = username
                        /\ users[u].password = HashPassword(password)

\* C1: a login with both fields present that names an unknown user and one
\* that names a user with another password get the same answer: 401,
\* 'Incorrect credentials', no access token, no cookie.
C1_LoginFailuresIdentical ==
    \A r \in Reqs :
        (/\ Done(r, "login")
         /\ req[r].username # Nil /\ req[r].password # Nil
         /\ ~ValidCredentials(req[r].username, req[r].password))
        => res[r] = Unauthorized401

C1_Witness ==
    \E r \in Reqs :
        /\ Done(r, "login") /\ req[r].password # Nil
        /\ loc[r].found # 0
        /\ ~ValidCredentials(req[r].username, req[r].password)
        /\ res[r].status = 401

\* C2: once a reset with token T has succeeded, a later reset presenting T
\* ends with 403 and leaves every user record, the password included, as it is.
C2_ResetTokenSingleUse ==
    [][\A r \in Reqs :
        (/\ pc[r] = "idle" /\ req'[r].kind = "reset"
         /\ req'[r].token # 0 /\ req'[r].password # Nil
         /\ fate[req'[r].token] = "used")
        => /\ pc'[r] = "done"
           /\ res'[r] = Forbidden403("Reset token has been expired")
           /\ users' = users]_vars

C2_Witness ==
    \E r \in Reqs :
        /\ Done(r, "reset") /\ req[r].token # 0 /\ req[r].password # Nil
        /\ fate[req[r].token] = "used"
        /\ res[r].status = 403

\* C3: in the refresh flow, when a user holds the presented token, every
\* verification failure (bad signature, expired, other subject) ends the
\* request with 403 'Access expired' and no access token.
C3_VerifyFailuresForbidden ==
    [][\A r \in Reqs :
        (/\ pc[r] = "idle" /\ req'[r].kind = "refresh"
         /\ Stored(users, req'[r].cookie)
         /\ \/ req'[r].cookie.sig # "refresh"
            \/ now >= req'[r].cookie.iat + RefreshLifetime
            \/ \E u \in UserIds : /\ users[u].exists
                                   /\ users[u].refreshToken = req'[r].cookie
                                   /\ u # req'[r].cookie.id)
        => res'[r] = Forbidden403("Access expired")]_vars

\* C4: a forgot-password request whose email send failed ends with 500 and
\* both reset fields absent, and the token it generated is stored on no
\* user record and passes no reset lookup.
C4_EmailFailureRollsBack ==
    /\ \A r \in Reqs :
        (Done(r, "forgot") /\ loc[r].resetToken # 0)
        => (fate[loc[r].resetToken] = "unsent"
            <=> res[r] = ErrorHandler("Cannot send email", 500))
    /\ \A r \in Reqs :
        (Done(r, "forgot") /\ res[r].status = 500)
        => /\ users[loc[r].found].resetPasswordToken = Absent
           /\ users[loc[r].found].resetPasswordExpiration = Absent
    /\ \A t \in ResetTokens :
        fate[t] = "unsent"
        => /\ \A u \in UserIds : users[u].resetPasswordToken # Sha256(t)
           /\ \A time \in Times : ResetLookup(users, t, time) = 0

C4_Witness ==
    \E r \in Reqs :
        /\ Done(r, "forgot") /\ res[r].status = 500
        /\ fate[loc[r].resetToken] = "unsent"

\* C5: a logout that presents a cookie clears the cookie and answers 200,
\* whether or not a user record holds the token.
C5_LogoutAlwaysSucceeds ==
    \A r \in Reqs :
        (Done(r, "logout") /\ req[r].cookie # NoToken)
        => /\ res[r].status = 200
           /\ res[r].cookie = ClearCookie

C5_Witness ==
    \E r \in Reqs :
        /\ Done(r, "logout") /\ req[r].cookie # NoToken
        /\ loc[r].found = 0
        /\ res[r].status = 200

\* C6: when a logout presenting T completes no user record stores T; a
\* token no record stores becomes stored only by the token issuer (login,
\* registration, reset); and a refresh presenting a token no record stores
\* ends with 403 'Access expired'.
C6_LogoutRevokesRefresh ==
    [][\A r \in Reqs :
        /\ (req'[r].kind = "logout" /\ req'[r].cookie # NoToken
            /\ pc[r] # "done" /\ pc'[r] = "done")
           => ~Stored(users', req'[r].cookie)
        /\ \A k \in RefreshTokens :
              (~Stored(users, k) /\ Stored(users', k))
              => \E s \in Reqs : pc[s] = "send_auth" /\ pc'[s] = "done"
        /\ (pc[r] = "idle" /\ req'[r].kind = "refresh" /\ req'[r].cookie # NoToken
            /\ ~Stored(users, req'[r].cookie))
           => res'[r] = Forbidden403("Access expired")]_vars

C6_Witness ==
    \E r \in Reqs :
        /\ Done(r, "logout") /\ loc[r].found # 0
        /\ req[r].cookie.sig = "refresh"
        /\ ~Stored(users, req[r].cookie)

\* C7: a reset whose token matches a stored digest that has expired and a
\* reset whose token matches no stored digest both end with 403 'Reset token
\* has been expired' and leave every user record unchanged.
C7_ExpiredSameAsInvalid ==
    [][\A r \in Reqs :
        (/\ pc[r] = "idle" /\ req'[r].kind = "reset"
         /\ req'[r].token # 0 /\ req'[r].password # Nil
         /\ \A u \in UserIds :
               (users[u].exists /\ users[u].resetPasswordToken = Sha256(req'[r].token))
               => /\ users[u].resetPasswordExpiration # Absent
                  /\ users[u].resetPasswordExpiration[1] <= now)
        => /\ pc'[r] = "done"
           /\ res'[r] = Forbidden403("Reset token has been expired")
           /\ users' = users]_vars

C7_Witness ==
    \E r \in Reqs :
        /\ Done(r, "reset") /\ res[r].status = 403
        /\ res[r].message = "Reset token has been expired"
        /\ \E u \in UserIds :
              /\ users[u].resetPasswordToken = Sha256(req[r].token)
              /\ users[u].resetPasswordExpiration[1] <= now

\* C8: a refresh whose token is signed with the refresh secret and unexpired,
\* but whose subject is not the user found by the stored token, ends with 403
\* and no access token.
C8_SubjectMismatchForbidden ==
    \A r \in Reqs :
        (/\ Done(r, "refresh")
         /\ loc[r].found # 0
         /\ req[r].cookie.sig = "refresh"
         /\ now < req[r].cookie.iat + RefreshLifetime
         /\ req[r].cookie.id # loc[r].found)
        => /\ res[r].status = 403
           /\ res[r].accessToken = NoToken

C8_Witness ==
    \E r \in Reqs :
        /\ Done(r, "refresh")
        /\ loc[r].found # 0
        /\ users[loc[r].found].refreshToken = req[r].cookie
        /\ req[r].cookie.sig = "refresh"
        /\ now < req[r].cookie.iat + RefreshLifetime
        /\ req[r].cookie.id # loc[r].found
        /\ res[r].status = 403

\* C9: a login with an existing username and its password answers 200 with
\* an access token for that user and sets as cookie the refresh token the
\* token issuer stored on the user record.
C9_LoginSucceeds ==
    \A r \in Reqs :
        (Done(r, "login") /\ ValidCredentials(req[r].username, req[r].password))
        => /\ res[r].status = 200
           /\ loc[r].found # 0
           /\ users[loc[r].found].username = req[r].username
           /\ res[r].accessToken.sig = "access"
           /\ res[r].accessToken.id = loc[r].found
           /\ res[r].cookie.op = "set"
           /\ res[r].cookie.value.sig = "refresh"
           /\ res[r].cookie.value.id = loc[r].found
           /\ users[loc[r].found].refreshToken = res[r].cookie.value

C9_Witness ==
    \E r \in Reqs :
        /\ Done(r, "login") /\ ValidCredentials(req[r].username, req[r].password)
        /\ res[r].status = 200

\* C10: after a successful reset with new password P2 of a user whose
\* password was P1 # P2, both reset fields of the user are absent, a login
\* with P2 is accepted and a login with P1 is refused with 401.
C10_ResetReplacesPassword ==
    \A r \in Reqs :
        (Done(r, "reset") /\ res[r].status = 200)
        => LET u == loc[r].found
           IN /\ users[u].resetPasswordToken = Absent
              /\ users[u].resetPasswordExpiration = Absent
              /\ LoginVerdict(users, users[u].username, req[r].password) = "ok"
              /\ \A p1 \in Passwords :
                    (loc[r].replaced = HashPassword(p1) /\ p1 # req[r].password)
                    => /\ LoginVerdict(users, users[u].username, p1) = "mismatch"
                       /\ WrongPasswordError.status = 401

C10_Witness ==
    \E r \in Reqs :
        /\ Done(r, "reset") /\ res[r].status = 200
        /\ loc[r].replaced # Absent
        /\ loc[r].replaced # HashPassword(req[r].password)

\* C11: a successful refresh answers with a new access token for the user
\* found and changes nothing else: every user record (refresh token, password,
\* reset fields) is the same before and after, and the answer neither sets nor
\* clears the cookie.
C11_RefreshChangesNothingElse ==
    [][\A r \in Reqs :
        (/\ pc[r] = "idle" /\ req'[r].kind = "refresh"
         /\ pc'[r] = "done" /\ res'[r].status = 200)
        => /\ users' = users
           /\ loc'[r].found # 0
           /\ res'[r].accessToken = SignAccessToken(loc'[r].found, now)
           /\ res'[r].cookie = NoCookie]_vars

C11_Witness ==
    \E r \in Reqs :
        /\ Done(r, "refresh") /\ res[r].status = 200
        /\ users[loc[r].found].refreshToken = req[r].cookie

\* C12: update-password reaches its save exactly when both fields are present,
\* differ, and the current password matches the stored hash; a missing field or
\* equal passwords end with 400, a wrong current password with 403 'Incorrect
\* password', and no failing request changes a record.  The save changes the
\* password of that user to the hash of the new one and nothing else; no
\* answer of update-password carries a token or a cookie.
C12_UpdatePassword ==
    [][\A r \in Reqs :
        /\ (pc[r] = "idle" /\ req'[r].kind = "update")
           => LET q == req'[r]
                  incomplete == q.password = Nil \/ q.newPassword = Nil
                  same == q.password = q.newPassword
                  matched == users[q.userId].password = HashPassword(q.password)
              IN /\ users' = users
                 /\ pc'[r] = "update_save" <=> (~incomplete /\ ~same /\ matched)
                 /\ pc'[r] # "update_save"
                    => /\ pc'[r] = "done"
                       /\ res'[r].accessToken = NoToken
                       /\ res'[r].cookie = NoCookie
                 /\ (incomplete \/ same) => res'[r].status = 400
                 /\ (~incomplete /\ ~same /\ ~matched)
                    => res'[r] = Forbidden403("Incorrect password")
        /\ (pc[r] = "update_save" /\ pc'[r] = "done")
           => /\ users' = [users EXCEPT ![req[r].userId].password =
                                           HashPassword(req[r].newPassword)]
              /\ res'[r].status = 200
              /\ res'[r].accessToken = NoToken
              /\ res'[r].cookie = NoCookie]_vars

C12_Witness ==
    \E r \in Reqs :
        /\ Done(r, "update") /\ res[r].status = 200
        /\ users[req[r].userId].password = HashPassword(req[r].newPassword)
        /\ users[req[r].userId].refreshToken # NoToken

\* C13: once a reset presenting the token whose digest a user stores has
\* failed because the expiration has passed, the reset-token digest and the
\* reset expiration of that user are absent.
C13_ExpiredFailureClearsFields ==
    [][\A r \in Reqs : \A u \in UserIds :
        (/\ pc[r] = "idle" /\ req'[r].kind = "reset"
         /\ req'[r].token # 0 /\ req'[r].password # Nil
         /\ users[u].exists
         /\ users[u].resetPasswordToken = Sha256(req'[r].token)
         /\ users[u].resetPasswordExpiration # Absent
         /\ users[u].resetPasswordExpiration[1] <= now)
        => /\ users'[u].resetPasswordToken = Absent
           /\ users'[u].resetPasswordExpiration = Absent]_vars

\* C20: a login, register, logout, forgot-password, reset-password or refresh
\* request that ends at its first step with a client error (400, 401, 403,
\* 404) leaves every user record unchanged.
C20_ClientErrorsWriteNothing ==
    [][\A r \in Reqs :
        (/\ pc[r] = "idle" /\ pc'[r] = "done"
         /\ req'[r].kind \in {"login", "register", "logout", "forgot", "reset", "refresh"}
         /\ res'[r].status \in {400, 401, 403, 404})
        => users' = users]_vars

C20_Witness ==
    \E r \in Reqs :
        /\ Done(r, "reset") /\ res[r] = ResetExpired
        /\ \E u \in UserIds : users[u].resetPasswordToken = Sha256(req[r].token)

\* The handler positions between two steps of a request.
InFlight == Saving \cup {"send_auth", "forgot_email"}

\* C14: a user has at most one reset token that passes the reset lookup, at
\* any clock value; and once forgot-password has stored a new token for a
\* user, no other token passes the lookup for that user.
C14_OneActiveResetToken ==
    [][/\ \A u \in UserIds : \A time \in Times :
            Cardinality({t \in ResetTokens :
                /\ users'[u].exists
                /\ users'[u].resetPasswordToken = Sha256(t)
                /\ NotExpired(users'[u].resetPasswordExpiration, time)}) <= 1
       /\ \A r \in Reqs :
            (pc[r] = "forgot_save" /\ pc'[r] = "forgot_email")
            => \A t \in ResetTokens \ {loc[r].resetToken} : \A time \in Times :
                  ~(/\ users'[loc[r].found].resetPasswordToken = Sha256(t)
                    /\ NotExpired(users'[loc[r].found].resetPasswordExpiration, time))]_vars

C14_Witness ==
    \E r \in Reqs : \E t \in ResetTokens :
        /\ req[r].kind = "forgot" /\ pc[r] \in {"forgot_email", "done"}
        /\ loc[r].resetToken # 0 /\ t # loc[r].resetToken
        /\ fate[t] = "mailed"
        /\ users[loc[r].found].resetPasswordToken = Sha256(loc[r].resetToken)
        /\ ResetLookup(users, loc[r].resetToken, now) = loc[r].found
        /\ ResetLookup(users, t, now) = 0

\* C15: every request whose handler is no longer running has a response: an
\* I/O step that fails ends the request with the error responder's answer.
C15_EveryRequestAnswered ==
    \A r \in Reqs :
        \/ pc[r] = "idle"
        \/ pc[r] \in InFlight
        \/ pc[r] = "done" /\ res[r].status # 0

\* C16: a refresh presenting the token T of a logout that found its user
\* writes nothing and ends with 200 and a new access token, or with 403
\* 'Access expired'; it ends with 403 when the logout has completed, and with
\* 200 only when T was still stored at its lookup; and when the logout
\* completes the refresh-token field of the user it found is absent.
C16_LogoutRefreshRace ==
    [][\A r \in Reqs :
        /\ \A s \in Reqs \ {r} :
            (/\ pc[r] = "idle" /\ req'[r].kind = "refresh"
             /\ req'[r].cookie # NoToken
             /\ req[s].kind = "logout" /\ req[s].cookie = req'[r].cookie
             /\ loc[s].found # 0)
            => /\ users' = users
               /\ pc'[r] = "done"
               /\ \/ /\ res'[r].status = 200
                     /\ res'[r].accessToken.sig = "access"
                     /\ Stored(users, req'[r].cookie)
                  \/ res'[r] = Forbidden403("Access expired")
               /\ pc[s] = "done" => res'[r] = Forbidden403("Access expired")
        /\ (pc[r] = "logout_save" /\ pc'[r] = "done")
           => users'[loc[r].found].refreshToken = NoToken]_vars

\* C17: of two resets presenting the same token with different new passwords,
\* at most one is answered with 200.
C17_ConcurrentResetsOneSucceeds ==
    \A r, s \in Reqs :
        (/\ r # s
         /\ Done(r, "reset") /\ Done(s, "reset")
         /\ req[r].token # 0 /\ req[r].token = req[s].token
         /\ req[r].password # req[s].password)
        => ~(res[r].status = 200 /\ res[s].status = 200)

\* C18: a stored reset token whose email was delivered leaves the record only
\* when a reset uses it or when forgot-password stores another token: the
\* rollback of a request whose email failed never removes it.
C18_RollbackSparesMailedToken ==
    [][\A u \in UserIds : \A t \in ResetTokens :
        (/\ fate[t] = "mailed"
         /\ users[u].exists
         /\ users[u].resetPasswordToken = Sha256(t)
         /\ users'[u].resetPasswordToken # Sha256(t))
        => \E r \in Reqs :
              \/ pc[r] = "reset_save" /\ pc'[r] = "send_auth" /\ req[r].token = t
              \/ pc[r] = "forgot_save" /\ pc'[r] = "forgot_email"
                 /\ loc[r].resetToken # t]_vars

\* C19 as stated: when the record of the user a logout found no longer holds
\* the presented token T at the logout's save, the save leaves the token the
\* record holds (T2) in place.
C19_LogoutClearsOnlyPresented ==
    [][\A r \in Reqs :
        (/\ pc[r] = "logout_save" /\ pc'[r] = "done"
         /\ users[loc[r].found].refreshToken # req[r].cookie)
        => users'[loc[r].found].refreshToken = users[loc[r].found].refreshToken]_vars

\* C19 amended: the save of a logout clears the refresh-token field of the
\* user its lookup found, whatever token the field holds by then (T, or a token
\* T2 a login stored in between), and changes nothing else.
C19_LogoutClearsStoredToken ==
    [][\A r \in Reqs :
        (pc[r] = "logout_save" /\ pc'[r] = "done")
        => users' = [users EXCEPT ![loc[r].found].refreshToken = NoToken]]_vars

C19_Witness ==
    \E r, s \in Reqs :
        /\ Done(r, "logout") /\ loc[r].found # 0
        /\ Done(s, "login") /\ res[s].status = 200
        /\ loc[s].found = loc[r].found
        /\ res[s].cookie.value # req[r].cookie
        /\ users[loc[r].found].refreshToken = NoToken

====
